---- MODULE Spec2Model ----
(***************************************************************************)
(* The image text-translation pipeline of image-translator: the            *)
(* translation engine, the mask builder and inpainter, the font-size       *)
(* fitter, the text renderer and the orchestrator translate_image.         *)
(*                                                                         *)
(* Texts are sequences of code points.  An image is a function from the    *)
(* pixel grid to a colour.  The external services (OCR engine, translation *)
(* backend, OpenCV inpainting, FreeType) are environment choices.          *)
(***************************************************************************)
EXTENDS Integers, Sequences, FiniteSets, TLC

\* ------------------------------------------------------------------ bounds
ImgW == 4
ImgH == 3
MaxRegions == 2
MaxRuns == 2
FontScale == 8
MaxBatch == 3
MaxFitSize == 20
MaxBox == 3
MaxWorkers == 2
MaxRectSide == 1
MaxRects == 2
MaxExpand == 3
MaxCalls == 2
MaxCoord == 1
MaxDbThreads == 2
MaxDbOps == 2
MaxPatterns == 2
MaxGptTexts == 2
MaxReplyLen == 3

\* ------------------------------------------------------- program constants
DefaultMinSize == 8
DefaultMaxSize == 200
DefaultExpandMask == 2
NoScaleCap == 32

\* ------------------------------------------------------------------- texts
Empty == <<>>
Blank == <<32>>
Hi == <<72, 105>>
Ok == <<79, 107>>
NiHao == <<20320, 22909>>
Hao == <<22909>>

SourceTexts == {Empty, Blank, Hi, Ok, NiHao}

IsSpace(c) == c \in {9, 10, 11, 12, 13, 28, 29, 30, 31, 32, 133, 160}

\* str.strip() is empty exactly when every character is whitespace
StripsToEmpty(text) == \A i \in 1..Len(text) : IsSpace(text[i])

\* `not text or not text.strip()`
IsBlankText(text) == Len(text) = 0 \/ StripsToEmpty(text)

\* The backend's answer for a text when it answers (self.translator.translate):
\* an opaque service, fixed here as a dictionary for the direction en -> zh-CN.
BackendTranslate(src, tgt, text) ==
    IF tgt = "zh-CN"
    THEN CASE text = Hi -> NiHao
           [] text = Ok -> Hao
           [] OTHER -> text
    ELSE CASE text = NiHao -> Hi
           [] text = Hao -> Ok
           [] OTHER -> text

VARIABLES
    \* TranslationEngine
    use_cache,          \* config cache_translations
    translator,         \* the backend object: <<source, target>>
    lru,                \* _cached_translate's lru_cache: text -> translation
    \* Inpainter / TextRenderer configuration
    expand_mask,
    auto_scale,
    \* one translate_image call
    pc,
    output_path,        \* whether an output path was given
    visualize,
    image,              \* the loaded image
    bboxes,
    texts,
    inpainted,
    translated_texts,
    result,
    ri,                 \* index of the next region to render
    ret,                \* the returned image
    written,            \* what the output path holds after this call
    inpainted_buf,      \* the buffer `inpainted` refers to
    result_buf,         \* the buffer `result` refers to
    \* history
    runs,               \* translate_image calls made so far
    trace,              \* the stages this call has executed, in order
    tr_raised,          \* per entry: did the backend raise for it
    r_faults,           \* per region rendered so far: did render_text meet a fault
    r_fonts,            \* per region rendered so far: the font path render_text chose
    r_args,             \* per render_text call so far: the bbox and text it was given
    image_read,         \* what cv2.imread returned for this call
    fault_at,           \* the stage at which this call met a fatal fault
    prev_failed,        \* an earlier call ended by raising at load or detect
    \* a direct call of TranslationEngine.translate_batch
    batch_in,
    batch_out,
    batch_failed,       \* per entry: the backend was called and raised
    batch_calls,        \* backend calls the batch made
    \* a call of FontManager.find_optimal_font_size
    fit_in,             \* its arguments
    fit,                \* the state of its search
    \* a direct call of Inpainter.create_mask or Inpainter.remove_text
    inp,
    \* a direct call of FontManager.get_font_path
    gfp,
    \* one FontManager shared by several workers calling load_font
    font_cache,         \* self.font_cache: key -> handle
    workers,            \* per worker: where it stands in load_font
    loads,              \* per key: ImageFont.truetype calls made so far
    \* a direct call of OCRResult.get_rect_bbox
    rb,
    \* the config an Inpainter was constructed from
    inp_config,
    \* webapp Database: the JSON file's users and the request threads
    db_file,            \* data['users'] as stored: id -> dict
    db_threads,         \* per thread: where it stands in a Database method
    db_last,            \* per id: the last completed write to its record
    \* a call of DocumentTranslator.translate_batch
    doc,
    \* a call of ChatGPTTranslationService.translate_batch
    gpt

engine_vars == <<use_cache, translator, lru>>
config_vars == <<expand_mask, auto_scale>>
run_vars == <<pc, output_path, visualize, image, bboxes, texts, inpainted,
              translated_texts, result, ri, ret, written, inpainted_buf,
              result_buf>>
hist_vars == <<runs, trace, tr_raised, r_faults, r_fonts, r_args, image_read,
               fault_at, prev_failed>>
batch_vars == <<batch_in, batch_out, batch_failed, batch_calls>>
fit_vars == <<fit_in, fit>>
font_vars == <<font_cache, workers, loads>>
unit_vars == <<inp, gfp, font_vars>>
web_vars == <<db_file, db_threads, db_last>>
addon_vars == <<doc, gpt>>
ext_vars == <<rb, inp_config, web_vars, addon_vars>>
pipeline_vars == <<config_vars, run_vars, hist_vars>>
vars == <<engine_vars, config_vars, run_vars, hist_vars, batch_vars, fit_vars,
          unit_vars, ext_vars>>


\* -------------------------------------------------------- TranslationEngine

\* As TranslateCached, with the fallback of a failed call stored in the cache.
TranslateCachedStoresFallback(text, cache, raises) ==
    IF text \in DOMAIN cache
    THEN [ret |-> cache[text], lru |-> cache, called |-> FALSE, failed |-> FALSE]
    ELSE IF raises
         THEN [ret |-> text, lru |-> cache @@ (text :> text),
               called |-> TRUE, failed |-> TRUE]
         ELSE LET t == BackendTranslate(translator[1], translator[2], text)
              IN [ret |-> t, lru |-> cache @@ (text :> t),
                  called |-> TRUE, failed |-> FALSE]

\* TranslationEngine.translate with the cache enabled: _cached_translate is
\* an lru_cache, which stores a result only when the call returns.
TranslateCached(text, cache, raises) ==
    IF text \in DOMAIN cache
    THEN [ret |-> cache[text], lru |-> cache, called |-> FALSE, failed |-> FALSE]
    ELSE IF raises
         THEN [ret |-> text, lru |-> cache, called |-> TRUE, failed |-> TRUE]
         ELSE LET t == BackendTranslate(translator[1], translator[2], text)
              IN [ret |-> t, lru |-> cache @@ (text :> t),
                  called |-> TRUE, failed |-> FALSE]

TranslateUncached(text, cache, raises) ==
    IF raises
    THEN [ret |-> text, lru |-> cache, called |-> TRUE, failed |-> TRUE]
    ELSE [ret |-> BackendTranslate(translator[1], translator[2], text),
          lru |-> cache, called |-> TRUE, failed |-> FALSE]

\* As Translate, without the test for an empty or whitespace-only text.
TranslateSendsBlank(text, cache, raises) ==
    IF use_cache
    THEN TranslateCached(text, cache, raises)
    ELSE TranslateUncached(text, cache, raises)

\* TranslationEngine.translate(text); raises: the backend raises if called
Translate(text, cache, raises) ==
    IF IsBlankText(text)
    THEN [ret |-> text, lru |-> cache, called |-> FALSE, failed |-> FALSE]
    ELSE IF use_cache
         THEN TranslateCached(text, cache, raises)
         ELSE TranslateUncached(text, cache, raises)

\* TranslationEngine.translate_batch(xs): [self.translate(t) for t in xs],
\* left to right, each call seeing the cache the earlier calls left.
\* raises[i]: the backend raises if it is called for entry i.
RECURSIVE TranslateBatchFrom(_, _, _, _, _)
TranslateBatchFrom(xs, raises, i, cache, acc) ==
    IF i > Len(xs)
    THEN [ret |-> acc.ret, lru |-> cache, failed |-> acc.failed, calls |-> acc.calls]
    ELSE LET r == Translate(xs[i], cache, raises[i])
         IN TranslateBatchFrom(xs, raises, i + 1, r.lru,
                [ret |-> Append(acc.ret, r.ret),
                 failed |-> Append(acc.failed, r.failed),
                 calls |-> acc.calls + (IF r.called THEN 1 ELSE 0)])

\* As TranslateBatch, with the blank entries left out of the list.
TranslateBatchSkipsBlank(xs, raises, cache) ==
    LET kept == SelectSeq(xs, LAMBDA t : ~IsBlankText(t))
    IN TranslateBatchFrom(kept, [i \in 1..Len(kept) |-> FALSE], 1, cache,
                          [ret |-> <<>>, failed |-> <<>>, calls |-> 0])

\* ret: the list returned; lru: the cache afterwards; failed[i]: the backend
\* was called for entry i and raised; calls: the backend calls made.
TranslateBatch(xs, raises, cache) ==
    TranslateBatchFrom(xs, raises, 1, cache,
                       [ret |-> <<>>, failed |-> <<>>, calls |-> 0])

\* ------------------------------------------------------------------ images
White == "w"
Black == "k"
Green == "g"
Colors == {White, Black, Green}

Pixels == (0..(ImgW - 1)) \X (0..(ImgH - 1))

\* What cv2.imread can return for a readable file: a blank page, and a page
\* with ink along its top row and in its bottom right corner.
InkOfPage == {p \in Pixels : p[2] = 0 \/ (p[1] = ImgW - 1 /\ p[2] = ImgH - 1)}
BlankPage == [p \in Pixels |-> White]
InkPage == [p \in Pixels |-> IF p \in InkOfPage THEN Black ELSE White]
InputImages == {BlankPage, InkPage}

\* No image: what cv2.imread returns for an unreadable file, and the value of
\* a name that is not bound yet.
None == [p \in Pixels |-> "none"]

\* ------------------------------------------------------------- OCR results
SetMin(S) == CHOOSE m \in S : \A n \in S : m <= n
SetMax(S) == CHOOSE m \in S : \A n \in S : m >= n

\* As GetRectBBox, taking the first point for the top-left corner and the
\* third for the bottom-right one.
GetRectBBoxFromCorners(polygon) ==
    <<polygon[1][1], polygon[1][2],
      polygon[3][1] - polygon[1][1], polygon[3][2] - polygon[1][2]>>

\* OCRResult.get_rect_bbox: (x, y, w, h) from the polygon's min/max
GetRectBBox(polygon) ==
    LET xs == {polygon[i][1] : i \in 1..Len(polygon)}
        ys == {polygon[i][2] : i \in 1..Len(polygon)}
        x == SetMin(xs)
        y == SetMin(ys)
    IN <<x, y, SetMax(xs) - x, SetMax(ys) - y>>

\* The page the engine looks at has a narrow box, a wide line at the top left
\* and a rotated (diamond) box, and so on; the engine reports the first n of
\* them.
BasePolygons == << <<<<2, 1>>, <<3, 1>>, <<3, 2>>, <<2, 2>>>>,
                   <<<<0, 0>>, <<2, 0>>, <<2, 1>>, <<0, 1>>>>,
                   <<<<1, 0>>, <<2, 1>>, <<1, 2>>, <<0, 1>>>> >>

ScenePolygon(k) == BasePolygons[((k - 1) % Len(BasePolygons)) + 1]

\* OCREngine.detect_text keeps every line the engine reports, in its order;
\* the engine drops no-text lines itself, so a detected text is not empty,
\* but it may be whitespace.
DetectedTexts == {Blank, Hi}

\* The lists detect_text can return: OCRResult(bbox, text, confidence)
Detections ==
    UNION {[1..n -> DetectedTexts] : n \in 0..MaxRegions}

OCRResultsOf(ts) == [i \in 1..Len(ts) |-> [bbox |-> ScenePolygon(i), text |-> ts[i]]]

\* ------------------------------------------------------ Inpainter (masks)
\* cv2.rectangle(mask, (x, y), (x + w, y + h), 255, -1): both corners are
\* part of the filled rectangle; drawing is clipped to the image.
FilledRect(bbox) ==
    {p \in Pixels : /\ bbox[1] <= p[1] /\ p[1] <= bbox[1] + bbox[3]
                    /\ bbox[2] <= p[2] /\ p[2] <= bbox[2] + bbox[4]}

\* As Dilate, with cv2.erode in the place of cv2.dilate.
Erode(mask, k) ==
    LET offs == (-(k \div 2))..(k - 1 - (k \div 2))
    IN {p \in Pixels : \A dx \in offs, dy \in offs :
                           <<p[1] + dx, p[2] + dy>> \in mask}

\* cv2.dilate with a k-by-k kernel of ones anchored at its centre (k \div 2):
\* dst(p) = max of src(p + d) over the kernel offsets d; outside the image
\* counts as unset.
Dilate(mask, k) ==
    LET offs == (-(k \div 2))..(k - 1 - (k \div 2))
    IN {p \in Pixels : \E dx \in offs, dy \in offs :
                           <<p[1] + dx, p[2] + dy>> \in mask}

\* Inpainter.create_mask: the set of pixels set to 255
CreateMask(boxes, k) ==
    LET filled == UNION {FilledRect(boxes[i]) : i \in 1..Len(boxes)}
    IN IF k > 0 THEN Dilate(filled, k) ELSE filled

\* cv2.inpaint: pixels outside the mask are kept, pixels under it are
\* reconstructed; fill is the reconstructed colour.
Inpaint(img, mask, fill) == [p \in Pixels |-> IF p \in mask THEN fill ELSE img[p]]

\* The colours the reconstruction can give: those of the known pixels.
FillColors(img, mask) ==
    IF mask = Pixels THEN {White, Black} ELSE {img[p] : p \in Pixels \ mask}

\* Inpainter.remove_text
RemoveText(img, boxes, k, fill) ==
    IF Len(boxes) = 0 THEN img ELSE Inpaint(img, CreateMask(boxes, k), fill)

\* Inpainter.__init__: `self.method = config.get('method', 'telea')`
InpainterMethod(config) ==
    IF config.method = "absent" THEN "telea" ELSE config.method

\* As InpainterAlgorithm, with the default algorithm for an unknown method.
InpainterAlgorithmDefaulting(method) ==
    IF method = "ns" THEN "INPAINT_NS" ELSE "INPAINT_TELEA"

\* Inpainter.__init__: the algorithm for a method, or ValueError
InpainterAlgorithm(method) ==
    IF method = "telea" THEN "INPAINT_TELEA"
    ELSE IF method = "ns" THEN "INPAINT_NS"
    ELSE "raise"

\* As RemoveTextBuffer, with the inpainting written into the image given.
RemoveTextBufferInPlace(boxes) == "loaded"

\* Inpainter.remove_text: the buffer it returns, given the loaded image: the
\* image itself for an empty list, else the new array cv2.inpaint returns.
RemoveTextBuffer(boxes) == IF Len(boxes) = 0 THEN "loaded" ELSE "inpaint"

\* `result = inpainted.copy()`: a new array
CopyBuffer(buf) == "copy"

\* As RemoveTextCalls, without the test for an empty list.
RemoveTextCallsUnguarded(boxes) == <<"create_mask", "inpaint">>

\* Inpainter.remove_text: the calls it makes, in order
RemoveTextCalls(boxes) ==
    IF Len(boxes) = 0 THEN <<>> ELSE <<"create_mask", "inpaint">>

\* ------------------------------------------------------------- FontManager
PingFang == "/System/Library/Fonts/PingFang.ttc"
Heiti == "/System/Library/Fonts/STHeiti Medium.ttc"
Songti == "/Library/Fonts/Songti.ttc"
Kaiti == "/System/Library/Fonts/Kaiti.ttc"

\* FontManager.FONTS
FONTS == [pingfang_sc |-> PingFang, pingfang_tc |-> PingFang,
          heiti |-> Heiti, songti |-> Songti, kaiti |-> Kaiti]

InstalledFonts == {PingFang, Heiti, Songti, Kaiti}

\* get_font_path: the key of FONTS a style and a script flag resolve to
FontKeyOf(style, simplified) ==
    IF style = "modern" \/ style = "sans"
    THEN (IF simplified THEN "pingfang_sc" ELSE "pingfang_tc")
    ELSE IF style = "serif" THEN "songti"
    ELSE IF style = "script" THEN "kaiti"
    ELSE "pingfang_sc"

\* As GetFontPath, without the test that the font file exists.
GetFontPathUnverified(style, simplified, installed) ==
    FONTS[FontKeyOf(style, simplified)]

\* FontManager.get_font_path; installed: the font files that exist
GetFontPath(style, simplified, installed) ==
    LET font_key == IF style = "modern" \/ style = "sans"
                    THEN (IF simplified THEN "pingfang_sc" ELSE "pingfang_tc")
                    ELSE IF style = "serif" THEN "songti"
                    ELSE IF style = "script" THEN "kaiti"
                    ELSE "pingfang_sc"
        font_path == FONTS[font_key]
    IN IF font_path \notin installed THEN FONTS["heiti"] ELSE font_path

\* The extent of font.getbbox(text) at a size, <<width, height>>: FreeType's
\* answer.  A glyph of PingFang is size \div FontScale pixels wide and high;
\* STHeiti rounds up instead; Songti carries bitmap strikes at the even
\* sizes, which are a pixel larger than the outline at the next odd size.
GlyphEm(font_path, size) ==
    IF font_path = PingFang THEN size \div FontScale
    ELSE IF font_path = Songti
         THEN (size \div FontScale) + (IF size % 2 = 0 THEN 1 ELSE 0)
         ELSE (size + FontScale - 1) \div FontScale

Measure(font_path, size, text) ==
    IF Len(text) = 0 THEN <<0, 0>>
    ELSE <<Len(text) * GlyphEm(font_path, size), GlyphEm(font_path, size)>>

\* `text_width <= max_width and text_height <= max_height`
Fits(font_path, size, text, max_width, max_height) ==
    /\ Measure(font_path, size, text)[1] <= max_width
    /\ Measure(font_path, size, text)[2] <= max_height

\* find_optimal_font_size: the state before the loop
FitStart(min_size, max_size) ==
    [left |-> min_size, right |-> max_size, optimal_size |-> min_size,
     iters |-> 0, status |-> "run"]

\* As FitStep, with the upper end moved two sizes down when the text does not
\* fit.
FitStepSkipsASize(st, text, font_path, max_width, max_height, unloadable) ==
    IF st.left > st.right
    THEN [st EXCEPT !.status = "done"]
    ELSE LET mid_size == (st.left + st.right) \div 2
         IN IF mid_size \in unloadable
            THEN [st EXCEPT !.status = "raised"]
            ELSE IF Fits(font_path, mid_size, text, max_width, max_height)
                 THEN [st EXCEPT !.optimal_size = mid_size,
                                 !.left = mid_size + 1,
                                 !.iters = @ + 1]
                 ELSE [st EXCEPT !.right = mid_size - 2, !.iters = @ + 1]

\* As FitStep, probing the lower end of the interval instead of its middle.
FitStepProbesLeft(st, text, font_path, max_width, max_height, unloadable) ==
    IF st.left > st.right
    THEN [st EXCEPT !.status = "done"]
    ELSE LET mid_size == st.left
         IN IF mid_size \in unloadable
            THEN [st EXCEPT !.status = "raised"]
            ELSE IF Fits(font_path, mid_size, text, max_width, max_height)
                 THEN [st EXCEPT !.optimal_size = mid_size,
                                 !.left = mid_size + 1,
                                 !.iters = @ + 1]
                 ELSE [st EXCEPT !.right = mid_size - 1, !.iters = @ + 1]

\* find_optimal_font_size: the loop test and one pass of the loop body.
\* unloadable: the sizes at which load_font raises for this font.
FitStep(st, text, font_path, max_width, max_height, unloadable) ==
    IF st.left > st.right
    THEN [st EXCEPT !.status = "done"]
    ELSE LET mid_size == (st.left + st.right) \div 2
         IN IF mid_size \in unloadable
            THEN [st EXCEPT !.status = "raised"]
            ELSE IF Fits(font_path, mid_size, text, max_width, max_height)
                 THEN [st EXCEPT !.optimal_size = mid_size,
                                 !.left = mid_size + 1,
                                 !.iters = @ + 1]
                 ELSE [st EXCEPT !.right = mid_size - 1, !.iters = @ + 1]

RECURSIVE FitRun(_, _, _, _, _, _)
FitRun(st, text, font_path, max_width, max_height, unloadable) ==
    IF st.status # "run" THEN st
    ELSE FitRun(FitStep(st, text, font_path, max_width, max_height, unloadable),
                text, font_path, max_width, max_height, unloadable)

\* FontManager.find_optimal_font_size: the final state of the search
FindOptimalFontSize(text, font_path, max_width, max_height, min_size, max_size, unloadable) ==
    FitRun(FitStart(min_size, max_size), text, font_path,
           max_width, max_height, unloadable)

\* ------------------------------------------------------------ TextRenderer
Min(a, b) == IF a <= b THEN a ELSE b

\* `any('一' <= char <= '鿿' for char in text)`
IsChinese(text) == \E i \in 1..Len(text) : 19968 <= text[i] /\ text[i] <= 40959

\* The faults a render_text call can meet: none, the font cannot be loaded
\* (ImageFont.truetype raises), or drawing raises part of the way.
RenderFaults == {"none", "font", "draw"}

\* Whitespace has an extent and no ink.
HasInk(text) == ~IsBlankText(text)

\* render_text's choice of font: is_chinese, then
\* get_font_path(style, simplified=is_chinese) with the default style.
RenderFontPath(text) == GetFontPath("modern", IsChinese(text), InstalledFonts)

\* The pixels draw.text((text_x, text_y), text) inks: the text's extent placed
\* at the centring offset, clipped to the image.
DrawnPixels(text, bbox, scale) ==
    LET font_path == RenderFontPath(text)
        font_size == IF scale
                     THEN FindOptimalFontSize(text, font_path, bbox[3], bbox[4],
                              DefaultMinSize, DefaultMaxSize, {}).optimal_size
                     ELSE Min(bbox[4], NoScaleCap)
        m == Measure(font_path, font_size, text)
        text_x == bbox[1] + ((bbox[3] - m[1]) \div 2)
        text_y == bbox[2] + ((bbox[4] - m[2]) \div 2)
    IN {p \in Pixels : /\ HasInk(text)
                       /\ text_x <= p[1] /\ p[1] < text_x + m[1]
                       /\ text_y <= p[2] /\ p[2] < text_y + m[2]}

\* As RenderText, drawing on the image it was given: a fault while drawing
\* leaves the text on it.
RenderTextInPlace(img, text, bbox, scale, fault) ==
    IF fault = "font"
    THEN [img |-> img, raised |-> FALSE]
    ELSE IF ~scale /\ Min(bbox[4], NoScaleCap) <= 0
         THEN [img |-> img, raised |-> FALSE]
         ELSE LET drawn == DrawnPixels(text, bbox, scale)
              IN [img |-> [p \in Pixels |-> IF p \in drawn THEN Black ELSE img[p]],
                  raised |-> FALSE]

\* As RenderText, without the try block: a fault is raised to the caller.
RenderTextUnguarded(img, text, bbox, scale, fault) ==
    IF fault # "none"
    THEN [img |-> img, raised |-> TRUE]
    ELSE IF ~scale /\ Min(bbox[4], NoScaleCap) <= 0
         THEN [img |-> img, raised |-> TRUE]
         ELSE LET drawn == DrawnPixels(text, bbox, scale)
              IN [img |-> [p \in Pixels |-> IF p \in drawn THEN Black ELSE img[p]],
                  raised |-> FALSE]

\* TextRenderer.render_text(image, text, bbox): img is the image it returns,
\* raised whether it raises instead.  The text is drawn on a PIL copy of the
\* image; whatever is raised inside the try block (a font that does not load,
\* a font size of 0 or less, a fault while drawing) is caught and the image
\* the call was given is returned.
RenderText(img, text, bbox, scale, fault) ==
    IF fault # "none"
    THEN [img |-> img, raised |-> FALSE]
    ELSE IF ~scale /\ Min(bbox[4], NoScaleCap) <= 0
         THEN [img |-> img, raised |-> FALSE]
         ELSE LET drawn == DrawnPixels(text, bbox, scale)
              IN [img |-> [p \in Pixels |-> IF p \in drawn THEN Black ELSE img[p]],
                  raised |-> FALSE]

\* The buffer render_text returns: the array it was given when anything
\* inside the try block raised, else the new array cv2.cvtColor returns.
RenderTextBuffer(buf, bbox, scale, fault) ==
    IF fault # "none" \/ (~scale /\ Min(bbox[4], NoScaleCap) <= 0)
    THEN buf ELSE "rendered"

\* cv2.rectangle(result, (x, y), (x + w, y + h), (0, 255, 0), 2): the outline,
\* two pixels thick, on the rectangle's edges; clipped to the image.
OutlinePixels(bbox) ==
    LET x0 == bbox[1]
        y0 == bbox[2]
        x1 == bbox[1] + bbox[3]
        y1 == bbox[2] + bbox[4]
        near(a, b) == a - b <= 1 /\ b - a <= 1
    IN {p \in Pixels :
          /\ x0 - 1 <= p[1] /\ p[1] <= x1 + 1
          /\ y0 - 1 <= p[2] /\ p[2] <= y1 + 1
          /\ \/ near(p[1], x0) \/ near(p[1], x1)
             \/ near(p[2], y0) \/ near(p[2], y1)}

RECURSIVE DrawOutlines(_, _, _)
DrawOutlines(img, boxes, i) ==
    IF i > Len(boxes) THEN img
    ELSE DrawOutlines([p \in Pixels |-> IF p \in OutlinePixels(boxes[i])
                                        THEN Green ELSE img[p]],
                      boxes, i + 1)

\* ------------------------------------- TranslationPipeline.translate_image
EnZh == <<"en", "zh-CN">>

\* The configurations a pipeline is built with: the defaults, and each
\* option changed from its default.
Configs ==
    { [cache_translations |-> TRUE, expand_mask |-> DefaultExpandMask, auto_scale |-> TRUE],
      [cache_translations |-> FALSE, expand_mask |-> 0, auto_scale |-> TRUE],
      [cache_translations |-> TRUE, expand_mask |-> 0, auto_scale |-> FALSE] }

\* No translate_batch call and no find_optimal_font_size call is under way.
IdleFitIn == [text |-> Empty, font_path |-> PingFang, max_width |-> 0,
              max_height |-> 0, min_size |-> 0, max_size |-> 0, unloadable |-> {}]
IdleFit == [left |-> 0, right |-> 0, optimal_size |-> 0, iters |-> 0, status |-> "idle"]

NoBatch ==
    /\ batch_in = <<>>
    /\ batch_out = <<>>
    /\ batch_failed = <<>>
    /\ batch_calls = 0

NoFit ==
    /\ fit_in = IdleFitIn
    /\ fit = IdleFit

\* The workers sharing one FontManager, and the keys they ask for.
Workers == 1..MaxWorkers
FontKeys == {<<PingFang, 12>>, <<Heiti, 12>>}

\* No direct call of the inpainter or the font manager is under way.
IdleInp == [op |-> "idle", method |-> "telea", radius |-> 5, image |-> None,
            boxes |-> <<>>, mask |-> {}, ret |-> None, calls |-> <<>>,
            raised |-> FALSE]
IdleGfp == [status |-> "idle", style |-> "modern", simplified |-> TRUE,
            installed |-> {}, ret |-> ""]
IdleWorker == [pc |-> "idle", key |-> <<PingFang, 12>>, font |-> 0, ret |-> 0,
               calls |-> 0]

NoUnit ==
    /\ inp = IdleInp
    /\ gfp = IdleGfp
    /\ font_cache = <<>>
    /\ workers = [w \in Workers |-> IdleWorker]
    /\ loads = [key \in FontKeys |-> 0]

\* No direct call of get_rect_bbox has been made and no Inpainter has been
\* constructed from a config.
IdleRb == [status |-> "idle", polygon |-> <<>>, ret |-> <<>>]
NoConfig == [method |-> "absent", radius |-> 0, expand_mask |-> 0]

\* webapp: the users the requests are about.  Two accounts may ask for the
\* same email.
DbIds == {"u1", "u2"}
DbEmails == {"a@x", "b@x"}
DbUsers ==
    {[id |-> i, email |-> e, password_hash |-> "pbkdf2", tier |-> "free",
      texts |-> 1, documents |-> 0, images |-> 0, characters |-> 2] :
        i \in DbIds, e \in DbEmails}
NoUser == [id |-> "", email |-> "", password_hash |-> "", tier |-> "free",
           texts |-> 0, documents |-> 0, images |-> 0, characters |-> 0]
DbThreads == 1..MaxDbThreads
IdleDbThread == [pc |-> "idle", op |-> "none", user |-> NoUser, data |-> <<>>,
                 found |-> FALSE, ret |-> NoUser, raised |-> FALSE, ops |-> 0]
NoWrite == [kind |-> "none", user |-> NoUser]

IdleDoc == [pc |-> "idle", files |-> <<>>, i |-> 1, succeeded |-> <<>>,
            failed |-> <<>>, attempts |-> <<>>]
IdleGpt == [status |-> "idle", texts |-> <<>>, sent |-> <<>>, reply |-> <<>>,
            ret |-> <<>>, fell_back |-> FALSE]

NoExt ==
    /\ rb = IdleRb
    /\ inp_config = NoConfig
    /\ db_file = <<>>
    /\ db_threads = [t \in DbThreads |-> IdleDbThread]
    /\ db_last = [i \in DbIds |-> NoWrite]
    /\ doc = IdleDoc
    /\ gpt = IdleGpt

\* No translate_image call has been made.
NoRun ==
    /\ pc = "idle"
    /\ output_path = FALSE
    /\ visualize = FALSE
    /\ image = None
    /\ bboxes = <<>>
    /\ texts = <<>>
    /\ inpainted = None
    /\ translated_texts = <<>>
    /\ result = None
    /\ ri = 1
    /\ ret = None
    /\ written = None
    /\ inpainted_buf = "none"
    /\ result_buf = "none"
    /\ image_read = None
    /\ r_args = <<>>
    /\ runs = 0
    /\ trace = <<>>
    /\ tr_raised = <<>>
    /\ r_faults = <<>>
    /\ r_fonts = <<>>
    /\ fault_at = "none"
    /\ prev_failed = FALSE

\* TranslationPipeline.__init__
Init ==
    /\ \E c \in Configs :
          /\ use_cache = c.cache_translations
          /\ expand_mask = c.expand_mask
          /\ auto_scale = c.auto_scale
    /\ translator = EnZh
    /\ lru = <<>>
    /\ NoRun
    /\ NoExt
    /\ NoUnit
    /\ NoBatch
    /\ NoFit

\* As AfterImread, without the test for None.
AfterImreadSkipCheck(img) == "loaded"

\* `if image is None: raise ValueError(...)`: where the call stands after
\* cv2.imread
AfterImread(img) == IF img = None THEN "raised" ELSE "loaded"

\* The call and its first step: image = cv2.imread(input_path); an unreadable
\* file gives None and the call raises ValueError.  Each call has its own
\* output path.
LoadImage ==
    /\ pc \in {"idle", "returned", "raised"}
    /\ runs < MaxRuns
    /\ \E out \in BOOLEAN, viz \in BOOLEAN, img \in InputImages \cup {None} :
          /\ output_path' = out
          /\ visualize' = viz
          /\ image' = img
          /\ image_read' = img
          /\ pc' = AfterImread(img)
          /\ fault_at' = IF img = None THEN "load" ELSE "none"
    /\ bboxes' = <<>>
    /\ texts' = <<>>
    /\ inpainted' = None
    /\ translated_texts' = <<>>
    /\ result' = None
    /\ ri' = 1
    /\ ret' = None
    /\ written' = None
    /\ inpainted_buf' = "none"
    /\ result_buf' = "none"
    /\ r_args' = <<>>
    /\ runs' = runs + 1
    /\ trace' = <<"load">>
    /\ tr_raised' = <<>>
    /\ r_faults' = <<>>
    /\ r_fonts' = <<>>
    /\ prev_failed' = (prev_failed \/ fault_at \in {"load", "detect"})
    /\ UNCHANGED <<engine_vars, config_vars, batch_vars, fit_vars, unit_vars, ext_vars>>

\* As OnEngineFault, with detection tried again after the fault.
OnEngineFaultRetry ==
    /\ pc' = "loaded"
    /\ fault_at' = "detect"
    /\ UNCHANGED <<bboxes, texts, ret>>

\* detect_text's `except Exception: ... raise`, passed on by translate_image's
\* own except clause: the engine's fault ends the call.
OnEngineFault ==
    /\ pc' = "raised"
    /\ fault_at' = "detect"
    /\ UNCHANGED <<bboxes, texts, ret>>

\* As OnNoText, without the early return.
OnNoTextContinue ==
    /\ pc' = "detected"
    /\ UNCHANGED <<bboxes, texts, ret, fault_at>>

\* `if not ocr_results: ... return image`
OnNoText ==
    /\ pc' = "returned"
    /\ ret' = image
    /\ UNCHANGED <<bboxes, texts, fault_at>>

\* ocr_results = self.ocr.detect_text(input_path): the engine raises, finds
\* nothing (the call returns the loaded image), or reports regions.
DetectText ==
    /\ pc = "loaded"
    /\ \/ OnEngineFault
       \/ \E ts \in Detections :
             LET ocr_results == OCRResultsOf(ts)
             IN IF Len(ocr_results) = 0
                THEN OnNoText
                ELSE /\ pc' = "detected"
                     /\ bboxes' = [i \in 1..Len(ocr_results) |->
                                      GetRectBBox(ocr_results[i].bbox)]
                     /\ texts' = [i \in 1..Len(ocr_results) |-> ocr_results[i].text]
                     /\ UNCHANGED <<ret, fault_at>>
    /\ trace' = Append(trace, "detect")
    /\ UNCHANGED <<engine_vars, config_vars, output_path, visualize, image,
                   inpainted, translated_texts, result, ri, written,
                   inpainted_buf, result_buf,
                   runs, image_read, tr_raised, r_faults, r_fonts, r_args, prev_failed,
                   batch_vars, fit_vars, unit_vars, ext_vars>>

\* inpainted = self.inpainter.remove_text(image, bboxes); cv2.inpaint may
\* raise, which is fatal for the call.
RemoveTextStep ==
    /\ pc = "detected"
    /\ \/ /\ pc' = "raised"
          /\ fault_at' = "inpaint"
          /\ UNCHANGED <<inpainted, inpainted_buf, image>>
       \/ \E fill \in FillColors(image, CreateMask(bboxes, expand_mask)) :
             LET out == RemoveText(image, bboxes, expand_mask, fill)
                 buf == RemoveTextBuffer(bboxes)
             IN /\ pc' = "inpainted"
                /\ inpainted' = out
                /\ inpainted_buf' = buf
                /\ image' = IF buf = "loaded" THEN out ELSE image
                /\ UNCHANGED fault_at
    /\ trace' = trace \o <<"mask", "inpaint">>
    /\ UNCHANGED <<engine_vars, config_vars, output_path, visualize,
                   bboxes, texts, translated_texts, result, ri, ret, written,
                   result_buf,
                   runs, image_read, tr_raised, r_faults, r_fonts, r_args, prev_failed,
                   batch_vars, fit_vars, unit_vars, ext_vars>>

\* translated_texts = self.translator.translate_batch(texts), then
\* result = inpainted.copy(); zip(bboxes, translated_texts) stops at the
\* shorter list.
TranslateTexts ==
    /\ pc = "inpainted"
    /\ \E raises \in [1..Len(texts) -> BOOLEAN] :
          LET r == TranslateBatch(texts, raises, lru)
          IN /\ translated_texts' = r.ret
             /\ lru' = r.lru
             /\ tr_raised' = r.failed
             /\ pc' = IF Min(Len(bboxes), Len(r.ret)) = 0
                      THEN "rendered" ELSE "rendering"
    /\ result' = inpainted
    /\ result_buf' = CopyBuffer(inpainted_buf)
    /\ ri' = 1
    /\ trace' = Append(trace, "translate")
    /\ UNCHANGED <<use_cache, translator, config_vars, output_path, visualize,
                   image, bboxes, texts, inpainted, ret, written, inpainted_buf,
                   runs, image_read, r_faults, r_fonts, r_args, fault_at, prev_failed,
                   batch_vars, fit_vars, unit_vars, ext_vars>>

ZipLen == Min(Len(bboxes), Len(translated_texts))

\* As RenderArgs, with the translations taken from the end of the list.
RenderArgsReversed(i) ==
    [bbox |-> bboxes[i], text |-> translated_texts[Len(translated_texts) - i + 1]]

\* `for bbox, translated_text in zip(bboxes, translated_texts)`: what the
\* i-th pass hands to render_text
RenderArgs(i) == [bbox |-> bboxes[i], text |-> translated_texts[i]]

\* One pass of the rendering loop:
\* result = self.text_renderer.render_text(result, translated_text, bbox)
RenderRegion ==
    /\ pc = "rendering"
    /\ ri <= ZipLen
    /\ \E fault \in RenderFaults :
          LET args == RenderArgs(ri)
              r == RenderText(result, args.text, args.bbox, auto_scale, fault)
          IN /\ result' = r.img
             /\ result_buf' = RenderTextBuffer(result_buf, args.bbox, auto_scale, fault)
             /\ r_faults' = Append(r_faults, fault # "none")
             /\ r_fonts' = Append(r_fonts, RenderFontPath(args.text))
             /\ r_args' = Append(r_args, args)
             /\ pc' = IF r.raised THEN "raised"
                      ELSE IF ri = ZipLen THEN "rendered" ELSE "rendering"
             /\ fault_at' = IF r.raised THEN "render" ELSE fault_at
    /\ ri' = ri + 1
    /\ trace' = IF ri = 1 THEN Append(trace, "render") ELSE trace
    /\ UNCHANGED <<engine_vars, config_vars, output_path, visualize, image,
                   bboxes, texts, inpainted, translated_texts, ret, written,
                   inpainted_buf,
                   runs, image_read, tr_raised, prev_failed, batch_vars, fit_vars, unit_vars, ext_vars>>

\* After the loop: `if visualize:` the rectangles are drawn on result
VisualizeStep ==
    /\ pc = "rendered"
    /\ LET drawn == IF visualize THEN DrawOutlines(result, bboxes, 1) ELSE result
       IN /\ result' = drawn
          /\ image' = IF result_buf = "loaded" THEN drawn ELSE image
          /\ inpainted' = IF result_buf = inpainted_buf THEN drawn ELSE inpainted
    /\ trace' = IF visualize THEN Append(trace, "visualize") ELSE trace
    /\ pc' = "saving"
    /\ UNCHANGED <<engine_vars, config_vars, output_path, visualize,
                   bboxes, texts, translated_texts, ri, ret, written,
                   inpainted_buf, result_buf,
                   runs, image_read, tr_raised, r_faults, r_fonts, r_args, fault_at, prev_failed,
                   batch_vars, fit_vars, unit_vars, ext_vars>>

\* `if output_path: cv2.imwrite(output_path, result)`, then `return result`
SaveOutput ==
    /\ pc = "saving"
    /\ written' = IF output_path THEN result ELSE written
    /\ trace' = IF output_path THEN Append(trace, "save") ELSE trace
    /\ ret' = result
    /\ pc' = "returned"
    /\ UNCHANGED <<engine_vars, config_vars, output_path, visualize, image,
                   bboxes, texts, inpainted, translated_texts, result, ri,
                   inpainted_buf, result_buf,
                   runs, image_read, tr_raised, r_faults, r_fonts, r_args, fault_at, prev_failed,
                   batch_vars, fit_vars, unit_vars, ext_vars>>

Next ==
    \/ LoadImage
    \/ DetectText
    \/ RemoveTextStep
    \/ TranslateTexts
    \/ RenderRegion
    \/ VisualizeStep
    \/ SaveOutput

Spec == Init /\ [][Next]_vars

\* ------------------------------ TranslationEngine called on its own
SeqsUpTo(S, n) == UNION {[1..k -> S] : k \in 0..n}

\* TranslationEngine.__init__
InitBatch ==
    /\ use_cache \in BOOLEAN
    /\ translator = EnZh
    /\ lru = <<>>
    /\ expand_mask = DefaultExpandMask
    /\ auto_scale = TRUE
    /\ NoRun
    /\ NoExt
    /\ NoUnit
    /\ NoBatch
    /\ NoFit

\* engine.translate_batch(xs), called when the caller holds no earlier result
CallTranslateBatch ==
    /\ NoBatch
    /\ \E xs \in SeqsUpTo(SourceTexts, MaxBatch) :
          \E raises \in [1..Len(xs) -> BOOLEAN] :
              LET r == TranslateBatch(xs, raises, lru)
              IN /\ batch_in' = xs
                 /\ batch_out' = r.ret
                 /\ batch_failed' = r.failed
                 /\ batch_calls' = r.calls
                 /\ lru' = r.lru
    /\ UNCHANGED <<use_cache, translator, pipeline_vars, fit_vars, unit_vars, ext_vars>>

\* The caller is done with the list it was given.
DropBatchResult ==
    /\ ~NoBatch
    /\ batch_in' = <<>>
    /\ batch_out' = <<>>
    /\ batch_failed' = <<>>
    /\ batch_calls' = 0
    /\ UNCHANGED <<engine_vars, pipeline_vars, fit_vars, unit_vars, ext_vars>>

\* TranslationEngine.switch_direction: the languages are swapped and a new
\* backend object is made; the lru_cache is left as it is.
SwitchDirection ==
    /\ NoBatch
    /\ translator' = <<translator[2], translator[1]>>
    /\ UNCHANGED <<use_cache, lru, pipeline_vars, batch_vars, fit_vars, unit_vars, ext_vars>>

NextBatch ==
    \/ CallTranslateBatch
    \/ DropBatchResult
    \/ SwitchDirection

SpecBatch == InitBatch /\ [][NextBatch]_vars

\* --------------------------------- find_optimal_font_size called on its own
FitTexts == {Empty, Hao, NiHao}
FitFonts == {PingFang, Heiti, Songti}

FitInputs ==
    { [text |-> t, font_path |-> f, max_width |-> mw, max_height |-> mh,
       min_size |-> lo, max_size |-> hi, unloadable |-> u] :
         t \in FitTexts, f \in FitFonts, mw \in 0..MaxBox, mh \in 0..MaxBox,
         lo \in 1..MaxFitSize, hi \in 1..MaxFitSize, u \in {{}, {MaxFitSize}} }

InitFit ==
    /\ use_cache = TRUE
    /\ translator = EnZh
    /\ lru = <<>>
    /\ expand_mask = DefaultExpandMask
    /\ auto_scale = TRUE
    /\ NoRun
    /\ NoExt
    /\ NoUnit
    /\ NoBatch
    /\ fit_in \in {in \in FitInputs : in.min_size <= in.max_size}
    /\ fit = FitStart(fit_in.min_size, fit_in.max_size)

\* The loop test and one pass of the loop
FitIterate ==
    /\ fit.status = "run"
    /\ fit' = FitStep(fit, fit_in.text, fit_in.font_path, fit_in.max_width,
                      fit_in.max_height, fit_in.unloadable)
    /\ UNCHANGED <<engine_vars, pipeline_vars, batch_vars, fit_in, unit_vars, ext_vars>>

NextFit == FitIterate

SpecFit == InitFit /\ [][NextFit]_vars

\* ------------------------------------------- Inpainter called on its own
\* The rectangles handed to the inpainter: at the top-left corner of the image
\* and near its bottom-right corner, sides of 0 included.
MaskRects ==
    {<<x, y, w, h>> : x \in {0, ImgW - 2}, y \in {0, ImgH - 2},
                      w \in 0..MaxRectSide, h \in 0..MaxRectSide}

\* Inpainter.__init__ with a known method
InitInpaint ==
    /\ use_cache = TRUE
    /\ translator = EnZh
    /\ lru = <<>>
    /\ expand_mask \in 0..MaxExpand
    /\ auto_scale = TRUE
    /\ NoRun
    /\ NoExt
    /\ NoBatch
    /\ NoFit
    /\ \E m \in {"telea", "ns"}, r \in {1, 5} :
          inp = [IdleInp EXCEPT !.method = m, !.radius = r]
    /\ gfp = IdleGfp
    /\ font_cache = <<>>
    /\ workers = [w \in Workers |-> IdleWorker]
    /\ loads = [key \in FontKeys |-> 0]

\* inpainter.create_mask(image.shape, boxes)
CallCreateMask ==
    /\ inp.op = "idle"
    /\ \E boxes \in SeqsUpTo(MaskRects, MaxRects) :
          inp' = [inp EXCEPT !.op = "create_mask", !.boxes = boxes,
                             !.mask = CreateMask(boxes, expand_mask),
                             !.calls = <<"create_mask">>]
    /\ UNCHANGED <<engine_vars, pipeline_vars, batch_vars, fit_vars, ext_vars, gfp, font_vars>>

\* inpainter.remove_text(img, boxes): cv2.inpaint answers or raises
CallRemoveText ==
    /\ inp.op = "idle"
    /\ \E img \in InputImages, boxes \in SeqsUpTo(MaskRects, 1) :
          LET calls == RemoveTextCalls(boxes)
              mask == IF "create_mask" \in {calls[i] : i \in 1..Len(calls)}
                      THEN CreateMask(boxes, expand_mask) ELSE {}
          IN \/ /\ "inpaint" \in {calls[i] : i \in 1..Len(calls)}
                /\ inp' = [inp EXCEPT !.op = "remove_text", !.image = img,
                                      !.boxes = boxes, !.mask = mask,
                                      !.calls = calls, !.raised = TRUE]
             \/ \E fill \in FillColors(img, mask) :
                   inp' = [inp EXCEPT !.op = "remove_text", !.image = img,
                                      !.boxes = boxes, !.mask = mask,
                                      !.calls = calls,
                                      !.ret = RemoveText(img, boxes, expand_mask, fill)]
    /\ UNCHANGED <<engine_vars, pipeline_vars, batch_vars, fit_vars, ext_vars, gfp, font_vars>>

\* The caller is done with what the inpainter gave it.
DropInpaintResult ==
    /\ inp.op \in {"create_mask", "remove_text"}
    /\ inp' = [IdleInp EXCEPT !.method = inp.method, !.radius = inp.radius]
    /\ UNCHANGED <<engine_vars, pipeline_vars, batch_vars, fit_vars, ext_vars, gfp, font_vars>>

NextInpaint ==
    \/ CallCreateMask
    \/ CallRemoveText
    \/ DropInpaintResult

SpecInpaint == InitInpaint /\ [][NextInpaint]_vars

\* ------------------------------------ FontManager.get_font_path on its own
\* The styles a caller may pass: the documented ones, and others.
Styles == {"modern", "sans", "serif", "script", "bold", ""}

InitFontPath ==
    /\ use_cache = TRUE
    /\ translator = EnZh
    /\ lru = <<>>
    /\ expand_mask = DefaultExpandMask
    /\ auto_scale = TRUE
    /\ NoRun
    /\ NoExt
    /\ NoUnit
    /\ NoBatch
    /\ NoFit

\* font_manager.get_font_path(style, simplified), on a machine where the
\* font files of `installed` exist.  The only lookups that can raise are the
\* subscripts of FONTS.
CallGetFontPath ==
    /\ gfp.status = "idle"
    /\ \E style \in Styles, simplified \in BOOLEAN, installed \in SUBSET InstalledFonts :
          gfp' = IF "heiti" \in DOMAIN FONTS
                 THEN [status |-> "done", style |-> style,
                       simplified |-> simplified, installed |-> installed,
                       ret |-> GetFontPath(style, simplified, installed)]
                 ELSE [status |-> "raised", style |-> style,
                       simplified |-> simplified, installed |-> installed,
                       ret |-> ""]
    /\ UNCHANGED <<engine_vars, pipeline_vars, batch_vars, fit_vars, ext_vars, inp, font_vars>>

\* The caller is done with the path.
DropFontPath ==
    /\ gfp.status # "idle"
    /\ gfp' = IdleGfp
    /\ UNCHANGED <<engine_vars, pipeline_vars, batch_vars, fit_vars, ext_vars, inp, font_vars>>

NextFontPath ==
    \/ CallGetFontPath
    \/ DropFontPath

SpecFontPath == InitFontPath /\ [][NextFontPath]_vars

\* ------------------------- one FontManager, several workers in load_font
InitFont == InitFontPath

\* load_font(font_path, size) up to its cache test: on a hit the cached
\* handle is returned, on a miss the worker goes on to ImageFont.truetype.
CallLoadFont(w) ==
    /\ workers[w].pc = "idle"
    /\ workers[w].calls < MaxCalls
    /\ \E key \in FontKeys :
          workers' = [workers EXCEPT ![w] =
              IF key \in DOMAIN font_cache
              THEN [@ EXCEPT !.pc = "returned", !.key = key,
                             !.ret = font_cache[key], !.calls = @ + 1]
              ELSE [@ EXCEPT !.pc = "loading", !.key = key, !.calls = @ + 1]]
    /\ UNCHANGED <<engine_vars, pipeline_vars, batch_vars, fit_vars, ext_vars, inp, gfp,
                   font_cache, loads>>

\* font = ImageFont.truetype(font_path, size): a new handle, or an exception,
\* which load_font logs and raises again.
Truetype(w) ==
    /\ workers[w].pc = "loading"
    /\ \/ /\ workers' = [workers EXCEPT ![w].pc = "storing",
                                         ![w].font = loads[workers[w].key] + 1]
          /\ loads' = [loads EXCEPT ![workers[w].key] = @ + 1]
       \/ /\ workers' = [workers EXCEPT ![w].pc = "raised"]
          /\ UNCHANGED loads
    /\ UNCHANGED <<engine_vars, pipeline_vars, batch_vars, fit_vars, ext_vars, inp, gfp,
                   font_cache>>

\* self.font_cache[cache_key] = font; return font
StoreFont(w) ==
    /\ workers[w].pc = "storing"
    /\ font_cache' = [key \in DOMAIN font_cache \cup {workers[w].key} |->
                         IF key = workers[w].key THEN workers[w].font
                         ELSE font_cache[key]]
    /\ workers' = [workers EXCEPT ![w].pc = "returned", ![w].ret = workers[w].font]
    /\ UNCHANGED <<engine_vars, pipeline_vars, batch_vars, fit_vars, ext_vars, inp, gfp, loads>>

\* The worker is done with the call.
LeaveLoadFont(w) ==
    /\ workers[w].pc \in {"returned", "raised"}
    /\ workers' = [workers EXCEPT ![w] = [IdleWorker EXCEPT !.calls = workers[w].calls]]
    /\ UNCHANGED <<engine_vars, pipeline_vars, batch_vars, fit_vars, ext_vars, inp, gfp,
                   font_cache, loads>>

NextFont ==
    \E w \in Workers :
        \/ CallLoadFont(w)
        \/ Truetype(w)
        \/ StoreFont(w)
        \/ LeaveLoadFont(w)

SpecFont == InitFont /\ [][NextFont]_vars

\* ---------------------------- an Inpainter from its construction onwards
\* The configs an Inpainter is constructed from: the method key absent, a
\* known method, or another string.
InpainterConfigs ==
    {[method |-> m, radius |-> r, expand_mask |-> k] :
        m \in {"absent", "telea", "ns", "fast", ""}, r \in {1, 5}, k \in 0..MaxExpand}

InitInpainterLife ==
    /\ use_cache = TRUE
    /\ translator = EnZh
    /\ lru = <<>>
    /\ expand_mask = DefaultExpandMask
    /\ auto_scale = TRUE
    /\ NoRun
    /\ NoExt
    /\ NoBatch
    /\ NoFit
    /\ inp = [IdleInp EXCEPT !.op = "unbuilt"]
    /\ gfp = IdleGfp
    /\ font_cache = <<>>
    /\ workers = [w \in Workers |-> IdleWorker]
    /\ loads = [key \in FontKeys |-> 0]

\* Inpainter(config): an unknown method raises ValueError and no object
\* comes to exist.
ConstructInpainter ==
    /\ inp.op = "unbuilt"
    /\ \E config \in InpainterConfigs :
          /\ inp_config' = config
          /\ IF InpainterAlgorithm(InpainterMethod(config)) = "raise"
             THEN /\ inp' = [IdleInp EXCEPT !.op = "failed"]
                  /\ UNCHANGED expand_mask
             ELSE /\ inp' = [IdleInp EXCEPT !.method = InpainterMethod(config),
                                            !.radius = config.radius]
                  /\ expand_mask' = config.expand_mask
    /\ UNCHANGED <<engine_vars, auto_scale, run_vars, hist_vars, batch_vars,
                   fit_vars, gfp, font_vars, rb, web_vars, addon_vars>>

\* The object, or the failed attempt, is dropped.
DiscardInpainter ==
    /\ inp.op \in {"idle", "failed"}
    /\ inp' = [IdleInp EXCEPT !.op = "unbuilt"]
    /\ inp_config' = NoConfig
    /\ expand_mask' = DefaultExpandMask
    /\ UNCHANGED <<engine_vars, auto_scale, run_vars, hist_vars, batch_vars,
                   fit_vars, gfp, font_vars, rb, web_vars, addon_vars>>

NextInpainterLife ==
    \/ ConstructInpainter
    \/ CallRemoveText
    \/ DropInpaintResult
    \/ DiscardInpainter

SpecInpainterLife == InitInpainterLife /\ [][NextInpainterLife]_vars

\* --------------------------------------- get_rect_bbox called on its own
Coords == (-1)..MaxCoord

\* The polygons an OCRResult may hold: four points, in any order.
Polygons == [1..4 -> Coords \X Coords]

InitBBox == InitFontPath

\* OCRResult(polygon, text, confidence).get_rect_bbox()
CallGetRectBBox ==
    /\ rb.status = "idle"
    /\ \E polygon \in Polygons :
          rb' = [status |-> "done", polygon |-> polygon, ret |-> GetRectBBox(polygon)]
    /\ UNCHANGED <<engine_vars, pipeline_vars, batch_vars, fit_vars, unit_vars,
                   inp_config, web_vars, addon_vars>>

\* The caller is done with the rectangle.
DropRectBBox ==
    /\ rb.status # "idle"
    /\ rb' = IdleRb
    /\ UNCHANGED <<engine_vars, pipeline_vars, batch_vars, fit_vars, unit_vars,
                   inp_config, web_vars, addon_vars>>

NextBBox ==
    \/ CallGetRectBBox
    \/ DropRectBBox

SpecBBox == InitBBox /\ [][NextBBox]_vars

\* ------------------------------------------------ webapp: User, Database
\* User.to_dict (the timestamps and the name are left out here)
ToDict(u) ==
    [id |-> u.id, email |-> u.email, tier |-> u.tier,
     usage |-> [texts |-> u.texts, documents |-> u.documents,
                images |-> u.images, characters |-> u.characters]]

\* dict.get(key, 0) for a counter of the stored dict
CounterOf(d, key) ==
    IF key \in DOMAIN d THEN d[key] ELSE 0

\* User.from_dict: data['password_hash'] raises KeyError for a dict without
\* the key; the counters are read from the top-level keys
\* '<kind>_translated_month' with the default 0.
FromDict(d) ==
    IF "password_hash" \notin DOMAIN d
    THEN [raised |-> TRUE, user |-> NoUser]
    ELSE [raised |-> FALSE,
          user |-> [id |-> d.id, email |-> d.email,
                    password_hash |-> d.password_hash, tier |-> d.tier,
                    texts |-> CounterOf(d, "texts_translated_month"),
                    documents |-> CounterOf(d, "documents_translated_month"),
                    images |-> CounterOf(d, "images_translated_month"),
                    characters |-> CounterOf(d, "characters_translated_month")]]

\* data['users'][id] = d, and del data['users'][id]
PutUser(users, id, d) ==
    [i \in DOMAIN users \cup {id} |-> IF i = id THEN d ELSE users[i]]
DelUser(users, id) ==
    [i \in DOMAIN users \ {id} |-> users[i]]

InitDb == InitFontPath

\* A request thread enters create_user, update_user, delete_user or get_user
\* and runs its first statement, data = self._load_data(): the file is read
\* under the lock, which is released when _load_data returns.
DbCall(t) ==
    /\ db_threads[t].pc = "idle"
    /\ db_threads[t].ops < MaxDbOps
    /\ \E op \in {"create", "update", "delete", "get"}, u \in DbUsers :
          /\ op \in {"delete", "get"} => u.email = "a@x"
          /\ db_threads' = [db_threads EXCEPT ![t] =
                 [IdleDbThread EXCEPT !.pc = "loaded", !.op = op, !.user = u,
                                      !.data = db_file,
                                      !.ops = db_threads[t].ops + 1]]
    /\ UNCHANGED <<engine_vars, pipeline_vars, batch_vars, fit_vars, unit_vars,
                   rb, inp_config, db_file, db_last, addon_vars>>

\* The rest of the method, on the data the thread loaded: the test, the
\* change to its own copy, and self._save_data(data), which writes the whole
\* copy to the file under the lock.
DbFinish(t) ==
    LET th == db_threads[t]
        u == th.user
        done == [th EXCEPT !.pc = "done"]
    IN /\ th.pc = "loaded"
       /\ \/ /\ th.op = "create"
             /\ IF \E i \in DOMAIN th.data : th.data[i].email = u.email
                THEN /\ db_threads' = [db_threads EXCEPT ![t] = [done EXCEPT !.raised = TRUE]]
                     /\ UNCHANGED <<db_file, db_last>>
                ELSE /\ db_file' = PutUser(th.data, u.id, ToDict(u))
                     /\ db_last' = [db_last EXCEPT ![u.id] = [kind |-> "put", user |-> u]]
                     /\ db_threads' = [db_threads EXCEPT ![t] = [done EXCEPT !.ret = u]]
          \/ /\ th.op = "update"
             /\ IF u.id \notin DOMAIN th.data
                THEN /\ db_threads' = [db_threads EXCEPT ![t] = [done EXCEPT !.raised = TRUE]]
                     /\ UNCHANGED <<db_file, db_last>>
                ELSE /\ db_file' = PutUser(th.data, u.id, ToDict(u))
                     /\ db_last' = [db_last EXCEPT ![u.id] = [kind |-> "put", user |-> u]]
                     /\ db_threads' = [db_threads EXCEPT ![t] = [done EXCEPT !.ret = u]]
          \/ /\ th.op = "delete"
             /\ db_threads' = [db_threads EXCEPT ![t] = done]
             /\ IF u.id \in DOMAIN th.data
                THEN /\ db_file' = DelUser(th.data, u.id)
                     /\ db_last' = [db_last EXCEPT ![u.id] = [kind |-> "deleted", user |-> NoUser]]
                ELSE UNCHANGED <<db_file, db_last>>
          \/ /\ th.op = "get"
             /\ IF u.id \in DOMAIN th.data
                THEN LET r == FromDict(th.data[u.id])
                     IN db_threads' = [db_threads EXCEPT ![t] =
                            [done EXCEPT !.found = TRUE, !.ret = r.user,
                                         !.raised = r.raised]]
                ELSE db_threads' = [db_threads EXCEPT ![t] = done]
             /\ UNCHANGED <<db_file, db_last>>
       /\ UNCHANGED <<engine_vars, pipeline_vars, batch_vars, fit_vars, unit_vars,
                      rb, inp_config, addon_vars>>

\* The method has returned or raised; the thread takes its next request.
DbLeave(t) ==
    /\ db_threads[t].pc = "done"
    /\ db_threads' = [db_threads EXCEPT ![t] =
           [IdleDbThread EXCEPT !.ops = db_threads[t].ops]]
    /\ UNCHANGED <<engine_vars, pipeline_vars, batch_vars, fit_vars, unit_vars,
                   rb, inp_config, db_file, db_last, addon_vars>>

NextDb ==
    \E t \in DbThreads :
        \/ DbCall(t)
        \/ DbFinish(t)
        \/ DbLeave(t)

SpecDb == InitDb /\ [][NextDb]_vars

\* ------------------------------------- DocumentTranslator.translate_batch
\* The files of the input folder and the glob patterns a caller passes.
DocFolder == <<[stem |-> "a", suffix |-> ".pdf"], [stem |-> "b", suffix |-> ".pdf"],
               [stem |-> "a", suffix |-> ".docx"]>>
DocPatterns == {[stem |-> "*", suffix |-> ".pdf"], [stem |-> "*", suffix |-> ".docx"],
                [stem |-> "a", suffix |-> ".*"]}

\* `file_patterns = ['*.pdf', '*.docx', '*.xlsx', '*.pptx']`
DefaultPatterns ==
    <<[stem |-> "*", suffix |-> ".pdf"], [stem |-> "*", suffix |-> ".docx"],
      [stem |-> "*", suffix |-> ".xlsx"], [stem |-> "*", suffix |-> ".pptx"]>>

\* input_path.glob(pattern): the files of the folder the pattern matches
Glob(pattern) ==
    SelectSeq(DocFolder,
              LAMBDA f : /\ pattern.stem \in {"*", f.stem}
                         /\ pattern.suffix \in {".*", f.suffix})

\* `for pattern in file_patterns: files_to_translate.extend(glob(pattern))`
RECURSIVE CollectFiles(_)
CollectFiles(patterns) ==
    IF Len(patterns) = 0 THEN <<>>
    ELSE CollectFiles(SubSeq(patterns, 1, Len(patterns) - 1))
            \o Glob(patterns[Len(patterns)])

InitDoc == InitFontPath

\* translate_batch(input_folder, output_folder, file_patterns) up to the
\* loop: a missing folder raises FileNotFoundError.
DocCollect ==
    /\ doc.pc = "idle"
    /\ \/ doc' = [IdleDoc EXCEPT !.pc = "raised"]
       \/ \E patterns \in {DefaultPatterns} \cup (SeqsUpTo(DocPatterns, MaxPatterns) \ {<<>>}) :
             doc' = [IdleDoc EXCEPT !.pc = "running", !.files = CollectFiles(patterns)]
    /\ UNCHANGED <<engine_vars, pipeline_vars, batch_vars, fit_vars, unit_vars,
                   rb, inp_config, web_vars, gpt>>

\* One pass of the loop: translate_document returns, or raises and the
\* exception is caught.
DocTranslateOne ==
    /\ doc.pc = "running"
    /\ doc.i <= Len(doc.files)
    /\ LET f == doc.files[doc.i]
       IN \/ doc' = [doc EXCEPT !.i = @ + 1, !.attempts = Append(@, f),
                                !.succeeded = Append(@, f)]
          \/ doc' = [doc EXCEPT !.i = @ + 1, !.attempts = Append(@, f),
                                !.failed = Append(@, f)]
    /\ UNCHANGED <<engine_vars, pipeline_vars, batch_vars, fit_vars, unit_vars,
                   rb, inp_config, web_vars, gpt>>

\* After the loop: `return results`
DocReturn ==
    /\ doc.pc = "running"
    /\ doc.i > Len(doc.files)
    /\ doc' = [doc EXCEPT !.pc = "done"]
    /\ UNCHANGED <<engine_vars, pipeline_vars, batch_vars, fit_vars, unit_vars,
                   rb, inp_config, web_vars, gpt>>

\* The caller is done with the results.
DocDrop ==
    /\ doc.pc \in {"done", "raised"}
    /\ doc' = IdleDoc
    /\ UNCHANGED <<engine_vars, pipeline_vars, batch_vars, fit_vars, unit_vars,
                   rb, inp_config, web_vars, gpt>>

NextDoc ==
    \/ DocCollect
    \/ DocTranslateOne
    \/ DocReturn
    \/ DocDrop

SpecDoc == InitDoc /\ [][NextDoc]_vars

\* ------------------------------ ChatGPTTranslationService.translate_batch
\* A text is a sequence of tokens; Sep stands for "---SEPARATOR---" and
\* Newline for "\n".
Sep == <<0>>
Newline == <<3>>
GptTokens == {0, 1, 2}
GptTexts == {<<1>>, <<2>>, <<1, 0, 2>>}

\* The model's translation of one text, when asked for it alone.
GptAnswer(text) == <<2>> \o text

\* "\n---SEPARATOR---\n".join(texts)
RECURSIVE JoinTexts(_)
JoinTexts(ts) ==
    IF Len(ts) = 0 THEN <<>>
    ELSE IF Len(ts) = 1 THEN ts[1]
    ELSE ts[1] \o Newline \o Sep \o Newline \o JoinTexts(Tail(ts))

\* translated.split("---SEPARATOR---"), translated being the reply after
\* strip() (a reply here has no whitespace at its ends)
RECURSIVE SplitAtSep(_, _)
SplitAtSep(reply, part) ==
    IF Len(reply) = 0 THEN <<part>>
    ELSE IF <<Head(reply)>> = Sep
         THEN <<part>> \o SplitAtSep(Tail(reply), <<>>)
         ELSE SplitAtSep(Tail(reply), Append(part, Head(reply)))

InitGpt == InitFontPath

\* service.translate_batch(texts): the model's reply is any text, or the
\* request raises and each text is translated on its own (translate returns
\* the text itself when its own request raises).
CallGptTranslateBatch ==
    /\ gpt.status = "idle"
    /\ \E ts \in SeqsUpTo(GptTexts, MaxGptTexts) :
          IF Len(ts) = 0
          THEN gpt' = [IdleGpt EXCEPT !.status = "done"]
          ELSE \/ \E reply \in SeqsUpTo(GptTokens, MaxReplyLen) :
                     gpt' = [IdleGpt EXCEPT !.status = "done", !.texts = ts,
                                            !.sent = JoinTexts(ts),
                                            !.reply = reply,
                                            !.ret = SplitAtSep(reply, <<>>)]
               \/ \E fails \in [1..Len(ts) -> BOOLEAN] :
                     gpt' = [IdleGpt EXCEPT !.status = "done", !.texts = ts,
                                            !.sent = JoinTexts(ts),
                                            !.fell_back = TRUE,
                                            !.ret = [i \in 1..Len(ts) |->
                                                       IF fails[i] THEN ts[i]
                                                       ELSE GptAnswer(ts[i])]]
    /\ UNCHANGED <<engine_vars, pipeline_vars, batch_vars, fit_vars, unit_vars,
                   rb, inp_config, web_vars, doc>>

\* The caller is done with the list.
DropGptResult ==
    /\ gpt.status = "done"
    /\ gpt' = IdleGpt
    /\ UNCHANGED <<engine_vars, pipeline_vars, batch_vars, fit_vars, unit_vars,
                   rb, inp_config, web_vars, doc>>

NextGpt ==
    \/ CallGptTranslateBatch
    \/ DropGptResult

SpecGpt == InitGpt /\ [][NextGpt]_vars

\* ---------------------------------------------------------------- claims

\* C2: when detection yields zero regions the call returns straight after
\* detection: no mask, inpainting, translation or rendering has run, and the
\* image returned is the loaded image.
C2_NoTextShortCircuit ==
    (pc = "returned" /\ bboxes = <<>>) =>
        /\ trace = <<"load", "detect">>
        /\ ret = image
        /\ image \in InputImages
        /\ inpainted = None
        /\ translated_texts = <<>>
        /\ result = None

C2_Witness ==
    /\ pc = "returned"
    /\ bboxes = <<>>
    /\ image = InkPage
    /\ ret = InkPage

\* C3: an unreadable image or an engine fault in detection makes the call
\* raise with no later stage executed and nothing written or returned, and
\* the pipeline can be called again.
C3_FatalFaultAborts ==
    /\ (image = None /\ pc # "idle") => fault_at = "load"
    /\ fault_at \in {"load", "detect"} =>
          /\ pc = "raised"
          /\ trace = IF fault_at = "load" THEN <<"load">> ELSE <<"load", "detect">>
          /\ inpainted = None
          /\ translated_texts = <<>>
          /\ result = None
          /\ ret = None
          /\ written = None
          /\ (runs < MaxRuns => ENABLED LoadImage)

\* A call that ran to the end, rendering included, after an earlier call of
\* the same pipeline had failed at load or detection.
C3_Witness ==
    /\ prev_failed
    /\ pc = "returned"
    /\ Len(bboxes) > 0
    /\ Len(r_faults) = Len(bboxes)
    /\ written = ret

\* C7: the stages of one call occur in the order load, detect, mask, inpaint,
\* translate, render, visualize, save: each at most once, each right after
\* its predecessor, visualize and save being optional.
StageSteps ==
    { <<"load", "detect">>, <<"detect", "mask">>, <<"mask", "inpaint">>,
      <<"inpaint", "translate">>, <<"translate", "render">>,
      <<"render", "visualize">>, <<"render", "save">>, <<"visualize", "save">> }

C7_StagesForward ==
    /\ Len(trace) > 0 => trace[1] = "load"
    /\ \A i \in 1..(Len(trace) - 1) : <<trace[i], trace[i + 1]>> \in StageSteps
    /\ \A i, j \in 1..Len(trace) : i # j => trace[i] # trace[j]

C7_Witness ==
    /\ pc = "returned"
    /\ trace = <<"load", "detect", "mask", "inpaint", "translate", "render",
                 "visualize", "save">>

\* C8 (as claimed): every call given an output path that returns has written
\* the image it returns to that path.
C8_SavedOnReturn ==
    (pc = "returned" /\ output_path) => written = ret

\* C4: render_text never raises, and a call that meets a fault returns the
\* image it was given: a pass of the rendering loop never ends the call, and
\* a pass with a fault leaves every pixel of result as it was.
C4_RenderTextNeverRaises ==
    [][pc = "rendering" =>
          /\ pc' \in {"rendering", "rendered"}
          /\ Len(r_faults') = Len(r_faults) + 1
          /\ r_faults'[Len(r_faults')] => result' = result]_vars

\* A faulted render_text call for a text with ink, whose image is untouched.
C4_Witness ==
    /\ pc = "rendered"
    /\ Len(r_faults) = 1
    /\ r_faults[1]
    /\ HasInk(translated_texts[1])
    /\ result = inpainted

\* The pixels of a region's rect_bbox (x, y, w, h): the w-by-h block whose
\* top-left pixel is (x, y).
BBoxBlock(bbox) ==
    {p \in Pixels : /\ bbox[1] <= p[1] /\ p[1] < bbox[1] + bbox[3]
                    /\ bbox[2] <= p[2] /\ p[2] < bbox[2] + bbox[4]}

\* The pixels inked by the regions rendered without a fault.
InkedPixels ==
    UNION {DrawnPixels(translated_texts[j], bboxes[j], auto_scale) :
              j \in {k \in 1..Len(r_faults) : ~r_faults[k]}}

\* C5: a rendering fault for one region does not end the call; once the loop
\* is over every region has been tried, the text of each region rendered
\* without a fault is on the image, and a faulted region shows the inpainted
\* background wherever no other region's text was drawn.
C5_RenderFaultIsolated ==
    /\ (\E i \in 1..Len(r_faults) : r_faults[i]) =>
           pc \in {"rendering", "rendered", "saving", "returned"}
    /\ pc = "rendered" =>
          /\ Len(r_faults) = Len(bboxes)
          /\ \A p \in InkedPixels : result[p] = Black
          /\ \A i \in 1..Len(r_faults) :
                r_faults[i] =>
                   \A p \in (FilledRect(bboxes[i]) \cup BBoxBlock(bboxes[i]))
                               \ InkedPixels :
                      result[p] = inpainted[p]
    /\ pc = "returned" /\ Len(bboxes) > 0 => Len(r_faults) = Len(bboxes)

\* The first region's rendering failed, the second region's text was drawn,
\* and the call returned.
C5_Witness ==
    /\ pc = "returned"
    /\ ~visualize
    /\ r_faults = <<TRUE, FALSE>>
    /\ HasInk(translated_texts[1])
    /\ DrawnPixels(translated_texts[2], bboxes[2], auto_scale) # {}
    /\ \E p \in DrawnPixels(translated_texts[2], bboxes[2], auto_scale) :
          inpainted[p] = White /\ ret[p] = Black

\* C6: when the backend raises for an entry, translate returns the entry's
\* source text, the other entries get their translations, and the call goes
\* on to rendering; with the cache enabled and disabled.
C6_TranslationFaultFallsBack ==
    /\ (\E i \in 1..Len(tr_raised) : tr_raised[i]) =>
           pc \in {"rendering", "rendered", "saving", "returned"}
    /\ pc \in {"rendering", "rendered", "saving", "returned"} /\ Len(bboxes) > 0 =>
          /\ Len(translated_texts) = Len(texts)
          /\ Len(tr_raised) = Len(texts)
          /\ \A i \in 1..Len(texts) :
                translated_texts[i] =
                    IF tr_raised[i] \/ IsBlankText(texts[i])
                    THEN texts[i]
                    ELSE BackendTranslate(translator[1], translator[2], texts[i])

\* With the cache enabled the backend raised for the first of two equal
\* texts and answered for the second.
C6_Witness ==
    /\ pc = "returned"
    /\ use_cache
    /\ texts = <<Hi, Hi>>
    /\ tr_raised = <<TRUE, FALSE>>
    /\ translated_texts = <<Hi, NiHao>>
    /\ Len(r_faults) = 2

\* C9 (as claimed): with visualize off and at least one region, every pixel
\* of the output outside all rect_bbox rectangles equals the loaded image's.
C9_OutsideBBoxUnchanged ==
    (pc = "returned" /\ ~visualize /\ Len(bboxes) >= 1) =>
        \A p \in Pixels \ UNION {BBoxBlock(bboxes[i]) : i \in 1..Len(bboxes)} :
            ret[p] = image[p]

\* Every answer the backend gives for a text, in either direction.
BackendAnswers(text) ==
    {BackendTranslate(d[1], d[2], text) : d \in {EnZh, <<EnZh[2], EnZh[1]>>}}

\* C1: translate_batch returns a list of the length of its input, in which
\* entry i is the backend's translation of xs[i] or xs[i] itself, and is
\* xs[i] when the backend raised for it.
C1_BatchAligned ==
    /\ Len(batch_out) = Len(batch_in)
    /\ Len(batch_failed) = Len(batch_in)
    /\ \A i \in 1..Len(batch_in) :
          /\ batch_out[i] = batch_in[i] \/ batch_out[i] \in BackendAnswers(batch_in[i])
          /\ batch_failed[i] => batch_out[i] = batch_in[i]

\* A batch with an empty string, a whitespace string, and a text given twice
\* for which the backend raised the first time only.
C1_Witness ==
    /\ batch_in = <<Blank, Hi, Hi>>
    /\ batch_failed = <<FALSE, TRUE, FALSE>>
    /\ batch_out = <<Blank, Hi, NiHao>>

\* The sizes of the interval at which the text fits the box.
FittingSizes(in) ==
    {s \in in.min_size..in.max_size :
        Fits(in.font_path, s, in.text, in.max_width, in.max_height)}

\* The text's extent does not decrease as the size grows.
MetricsMonotone(in) ==
    \A s \in in.min_size..(in.max_size - 1) :
        /\ Measure(in.font_path, s, in.text)[1] <= Measure(in.font_path, s + 1, in.text)[1]
        /\ Measure(in.font_path, s, in.text)[2] <= Measure(in.font_path, s + 1, in.text)[2]

\* C10: for min_size <= max_size and metrics that do not decrease with the
\* size, the search returns the largest size of the interval at which the
\* text fits the box, and min_size when none fits.
C10_FitIsLargestFitting ==
    (fit.status = "done" /\ MetricsMonotone(fit_in)) =>
        fit.optimal_size = IF FittingSizes(fit_in) = {}
                           THEN fit_in.min_size
                           ELSE SetMax(FittingSizes(fit_in))

\* A search that took three passes or more and ended strictly inside the
\* interval.
C10_Witness ==
    /\ fit.status = "done"
    /\ MetricsMonotone(fit_in)
    /\ fit.iters >= 3
    /\ fit_in.min_size < fit.optimal_size
    /\ fit.optimal_size < fit_in.max_size
    /\ Len(fit_in.text) = 2

\* C11 (as claimed): find_optimal_font_size never raises, also when the font
\* fails to load at a size it probes: the search never ends by raising.
C11_FitNeverRaises ==
    fit.status # "raised"

\* The number of sizes in the interval of a search.
IntervalLen(in) == in.max_size - in.min_size + 1

\* The least k with 2^k >= n, and the greatest k with 2^k <= n (n >= 1).
RECURSIVE CeilLog2(_)
CeilLog2(n) == IF n <= 1 THEN 0 ELSE 1 + CeilLog2((n + 1) \div 2)

RECURSIVE FloorLog2(_)
FloorLog2(n) == IF n <= 1 THEN 0 ELSE 1 + FloorLog2(n \div 2)

\* C12 (as claimed): for min_size <= max_size the search makes at most
\* ceil(log2(max_size - min_size + 1)) measurements.
C12_CeilLogBound ==
    fit.iters <= CeilLog2(IntervalLen(fit_in))

\* C12 (amended): for min_size <= max_size the search ends after at most
\* floor(log2(max_size - min_size + 1)) + 1 measurements; after i
\* measurements at most (max_size - min_size + 1) div 2^i sizes remain.
C12_FloorLogBound ==
    /\ fit.iters <= FloorLog2(IntervalLen(fit_in)) + 1
    /\ fit.status = "run" =>
          (fit.right - fit.left + 1) * (2 ^ fit.iters) <= IntervalLen(fit_in)
    /\ fit.status = "done" => fit.left > fit.right

\* A finished search over an interval of four sizes that took three
\* measurements.
C12_Witness ==
    /\ fit.status = "done"
    /\ IntervalLen(fit_in) = 4
    /\ fit.iters = 3
    /\ fit.iters = FloorLog2(IntervalLen(fit_in)) + 1

\* C13 (as claimed): with max_width = 0 and max_height = 0 the search returns
\* min_size for every text.
C13_ZeroBoxGivesMin ==
    (fit.status = "done" /\ fit_in.max_width = 0 /\ fit_in.max_height = 0) =>
        fit.optimal_size = fit_in.min_size

\* C14 (as claimed): with expand_mask = 0 create_mask marks exactly the pixels
\* of the w-by-h blocks of its rectangles; a rectangle with w = 0 or h = 0
\* marks nothing, and none marks column x + w or row y + h.
C14_MaskIsUnionOfBlocks ==
    (inp.op = "create_mask" /\ expand_mask = 0) =>
        inp.mask = UNION {BBoxBlock(inp.boxes[i]) : i \in 1..Len(inp.boxes)}

\* C15: every pixel create_mask marks with expand_mask = 0 is marked with
\* expand_mask = k, for odd and even k.
C15_DilationKeepsMask ==
    inp.op = "create_mask" =>
        CreateMask(inp.boxes, 0) \subseteq inp.mask

\* An even kernel side, and a mask strictly larger than the undilated one.
C15_Witness ==
    /\ inp.op = "create_mask"
    /\ expand_mask = 2
    /\ Len(inp.boxes) = 2
    /\ CreateMask(inp.boxes, 0) # {}
    /\ inp.mask # CreateMask(inp.boxes, 0)

\* C16: remove_text(image, []) returns the image it was given, every pixel
\* unchanged, and calls neither create_mask nor inpaint, whatever the method,
\* the radius and expand_mask.
C16_EmptyListIsNoOp ==
    (inp.op = "remove_text" /\ inp.boxes = <<>>) =>
        /\ ~inp.raised
        /\ inp.ret = inp.image
        /\ inp.calls = <<>>
        /\ inp.mask = {}

C16_Witness ==
    /\ inp.op = "remove_text"
    /\ inp.boxes = <<>>
    /\ inp.method = "ns"
    /\ expand_mask = 2
    /\ inp.image = InkPage
    /\ inp.ret = InkPage

\* C17 (as claimed): with several workers in load_font on one FontManager,
\* each key is loaded at most once, and every worker that was returned a
\* handle for a key holds the handle the cache has for it.
C17_KeyLoadedOnce ==
    /\ \A key \in FontKeys : loads[key] <= 1
    /\ \A w \in Workers :
          workers[w].pc = "returned" =>
              /\ workers[w].key \in DOMAIN font_cache
              /\ workers[w].ret = font_cache[workers[w].key]

\* C18 (as claimed): of two texts rendered with the default style, one with a
\* character in U+4E00..U+9FFF and one without, the font paths differ.
C18_HanAndLatinFontsDiffer ==
    \A i, j \in 1..Len(r_fonts) :
        (IsChinese(translated_texts[i]) /\ ~IsChinese(translated_texts[j])) =>
            r_fonts[i] # r_fonts[j]

\* C19: get_font_path never raises, for known and unknown styles and either
\* script flag; it returns a path of FONTS, the fallback font's path when the
\* file of the resolved key does not exist, and the resolved key's otherwise.
C19_FontPathFallsBack ==
    gfp.status # "idle" =>
        /\ gfp.status = "done"
        /\ gfp.ret \in {FONTS[key] : key \in DOMAIN FONTS}
        /\ LET resolved == FONTS[FontKeyOf(gfp.style, gfp.simplified)]
           IN gfp.ret = IF resolved \in gfp.installed THEN resolved ELSE FONTS.heiti

\* An unknown style whose resolved font file is missing.
C19_Witness ==
    /\ gfp.status = "done"
    /\ gfp.style = "bold"
    /\ PingFang \notin gfp.installed
    /\ Heiti \in gfp.installed
    /\ gfp.ret = Heiti

\* The pixels of the regions' boxes that carry rendered text.
InkedInBBox ==
    UNION {DrawnPixels(translated_texts[j], bboxes[j], auto_scale)
               \cap BBoxBlock(bboxes[j]) :
              j \in {k \in 1..Len(r_faults) : ~r_faults[k]}}

\* C20 (as claimed): with visualize on, the rectangles change no pixel that
\* carries rendered text: the text drawn inside the regions' boxes is on the
\* image the call returns.
C20_VisualizeKeepsText ==
    (pc = "returned" /\ visualize /\ Len(bboxes) > 0) =>
        \A p \in InkedInBBox : ret[p] = Black

\* C21: translate returns an empty or whitespace-only text unchanged without
\* calling the backend, with the cache enabled or not: the backend is called
\* at most once per entry that is not blank, so never for a batch of blank
\* strings only.
C21_BlankNotSent ==
    /\ \A i \in 1..Len(batch_in) :
          IsBlankText(batch_in[i]) =>
              /\ batch_out[i] = batch_in[i]
              /\ ~batch_failed[i]
    /\ batch_calls <= Cardinality({i \in 1..Len(batch_in) : ~IsBlankText(batch_in[i])})

\* A batch of three blank strings, answered without a backend call.
C21_Witness ==
    /\ batch_in = <<Empty, Blank, Blank>>
    /\ batch_out = <<Empty, Blank, Blank>>
    /\ batch_calls = 0

\* C22: during a translate_image call the loaded image is never written to:
\* neither inpainted nor result refers to its buffer, and it holds what was
\* read.
C22_LoadedImageUntouched ==
    /\ pc # "idle" => image = image_read
    /\ inpainted_buf # "loaded"
    /\ result_buf # "loaded"

\* A call that inpainted, rendered one region with a fault and one without,
\* drew the rectangles and returned an image other than the loaded one.
C22_Witness ==
    /\ pc = "returned"
    /\ visualize
    /\ r_faults = <<TRUE, FALSE>>
    /\ image = InkPage
    /\ inpainted # image
    /\ ret # inpainted

\* C25: in a call with n >= 1 regions that gets through the rendering loop,
\* render_text is called n times, the k-th call with the k-th region's
\* rect_bbox and the translation of the k-th region's text.
C25_RenderCallsAligned ==
    /\ pc = "rendering" => Len(r_args) = ri - 1
    /\ (pc \in {"rendered", "saving", "returned"} /\ Len(bboxes) >= 1) =>
          /\ Len(r_args) = Len(bboxes)
          /\ \A k \in 1..Len(bboxes) :
                /\ r_args[k].bbox = GetRectBBox(ScenePolygon(k))
                /\ r_args[k].text =
                      IF tr_raised[k] \/ IsBlankText(texts[k])
                      THEN texts[k]
                      ELSE BackendTranslate(translator[1], translator[2], texts[k])

\* Two regions with different translations, both handed to render_text.
C25_Witness ==
    /\ pc = "returned"
    /\ texts = <<Hi, Blank>>
    /\ Len(r_args) = 2
    /\ r_args[1] = [bbox |-> GetRectBBox(ScenePolygon(1)), text |-> NiHao]
    /\ r_args[2] = [bbox |-> GetRectBBox(ScenePolygon(2)), text |-> Blank]

\* C26 (as claimed): with the cache enabled, every answer of translate that
\* is not the fallback of a failed call is the backend's translation for the
\* engine's current direction, also after switch_direction.
C26_CacheFollowsDirection ==
    use_cache =>
        \A i \in 1..Len(batch_in) :
            (~IsBlankText(batch_in[i]) /\ ~batch_failed[i]) =>
                batch_out[i] = BackendTranslate(translator[1], translator[2], batch_in[i])

\* C23: for a polygon of four integer points in any order get_rect_bbox
\* returns (x, y, w, h) with w >= 0 and h >= 0, every point of the polygon
\* within x..x + w and y..y + h, and a point on each of the four sides, i.e.
\* (min x, min y, max x - min x, max y - min y).
C23_RectBBoxIsMinMax ==
    rb.status = "done" =>
        LET x == rb.ret[1]
            y == rb.ret[2]
            w == rb.ret[3]
            h == rb.ret[4]
            pts == {rb.polygon[i] : i \in 1..4}
        IN /\ w >= 0 /\ h >= 0
           /\ \A p \in pts : /\ x <= p[1] /\ p[1] <= x + w
                              /\ y <= p[2] /\ p[2] <= y + h
           /\ \E p \in pts : p[1] = x
           /\ \E p \in pts : p[1] = x + w
           /\ \E p \in pts : p[2] = y
           /\ \E p \in pts : p[2] = y + h

\* A rotated box given from its rightmost point on, with a negative
\* coordinate.
C23_Witness ==
    /\ rb.status = "done"
    /\ rb.polygon = <<<<1, 0>>, <<0, 1>>, <<-1, 0>>, <<0, -1>>>>
    /\ rb.ret = <<-1, -1, 2, 2>>

\* C24: an Inpainter constructed with a method other than 'telea' or 'ns'
\* fails at construction, so every Inpainter that exists, and every
\* remove_text call, has one of the two methods; with no method key the
\* construction succeeds with 'telea'.
C24_UnknownMethodFailsAtConstruction ==
    /\ inp.op = "failed" <=>
           inp_config.method \notin {"absent", "telea", "ns"}
    /\ inp.op \in {"idle", "remove_text"} =>
          /\ inp.method \in {"telea", "ns"}
          /\ inp.method = IF inp_config.method = "absent" THEN "telea"
                          ELSE inp_config.method
    /\ inp.calls # <<>> => inp.method \in {"telea", "ns"}

\* A construction with the method 'fast' has failed.
C24_Witness ==
    /\ inp.op = "failed"
    /\ inp_config.method = "fast"
    /\ inp.calls = <<>>

\* C27 (as claimed): get_user for a stored user returns without error a User
\* with the stored id, email, tier and monthly counters, and the password
\* hash of the user that was created.
C27_UserReadBack ==
    \A t \in DbThreads :
        LET th == db_threads[t]
        IN (th.pc = "done" /\ th.op = "get" /\ th.found) =>
              /\ ~th.raised
              /\ LET d == th.data[th.user.id]
                 IN /\ th.ret.id = d.id
                    /\ th.ret.email = d.email
                    /\ th.ret.tier = d.tier
                    /\ th.ret.password_hash \in {u.password_hash : u \in DbUsers}
                    /\ th.ret.texts = d.usage.texts
                    /\ th.ret.documents = d.usage.documents
                    /\ th.ret.images = d.usage.images
                    /\ th.ret.characters = d.usage.characters

\* C28 (as claimed): whatever the interleaving of create_user, update_user
\* and delete_user calls, no two stored users share an email, and the last
\* completed write to each record is what the file holds for it.
C28_NoLostWrite ==
    /\ \A i, j \in DOMAIN db_file :
          i # j => db_file[i].email # db_file[j].email
    /\ \A i \in DbIds :
          /\ db_last[i].kind = "put" =>
                 i \in DOMAIN db_file /\ db_file[i] = ToDict(db_last[i].user)
          /\ db_last[i].kind = "deleted" => i \notin DOMAIN db_file

\* The number of entries of a list equal to f.
CountOf(list, f) == Cardinality({k \in 1..Len(list) : list[k] = f})

\* C29 (as claimed): translate_batch does not raise because of a file's
\* failure, and when it returns every collected file has been processed
\* exactly once and is in exactly one of the lists succeeded and failed.
C29_EachFileOnce ==
    doc.pc = "done" =>
        \A k \in 1..Len(doc.files) :
            /\ CountOf(doc.attempts, doc.files[k]) = 1
            /\ CountOf(doc.succeeded, doc.files[k])
                  + CountOf(doc.failed, doc.files[k]) = 1

\* C30 (as claimed): translate_batch returns a list with one entry per text,
\* whatever the model replies.
C30_OneEntryPerText ==
    gpt.status = "done" => Len(gpt.ret) = Len(gpt.texts)

====
